---- MODULE Spec2Model ----
(***************************************************************************)
(* Model of PromptTriggerQuestionRepository: versioned CRUD of trigger     *)
(* questions with a history table (backend-repository-prompt-trigger-      *)
(* questions.py, backend-models-prompt-trigger-questions.py).              *)
(*                                                                         *)
(* The two tables are sets of rows.  Spec runs the repository methods one  *)
(* after another, each as one step.  SpecTx splits the tracked mutations   *)
(* at their awaits (the read of the question, the commit) and runs them in *)
(* two database sessions that may overlap.                                 *)
(***************************************************************************)
EXTENDS Integers, Sequences, FiniteSets, TLC

\* ---------------------------------------------------------------- bounds
MaxClock == 3

\* ---------------------------------------------------------------- inputs
NoneVal == "<None>"
Groups == {"G", "H"}
Actors == {"u1", "u2"}
Sessions == {"s1", "s2"}
CreateInputs == {<<"Q1", "G", "A">>, <<"Q2", "G", "K">>, <<"Q1", "H", "K">>}
TxCreateInputs == {<<"Q1", "G", "A">>}
FieldChanges == {<<NoneVal, NoneVal, NoneVal>>, <<"Q2", NoneVal, NoneVal>>,
                 <<NoneVal, "H", "K">>}
Creators == {"u1"}
Callers == {<<"u1", NoneVal>>, <<"u2", "why">>}
UNGROUPED == "Ungrouped"
GroupArgs == Groups \cup {""}
RenameInputs == {<<"G", "H", "u2">>, <<"H", "G", "u1">>, <<"", "H", "u2">>}
SourceFilters == {NoneVal, "", "A", "K", "E"}
GroupFilters == {NoneVal, "", "G", "H", "Ungrouped", "X"}
GroupOrder == <<"", "G", "H", "Ungrouped">>

VARIABLES questions, history, nextQid, nextHid, now, last, sess, applied

vars == <<questions, history, nextQid, nextHid, now, last, sess, applied>>

\* ------------------------------------------------------------- the rows
PromptTriggerQuestion(id, text, group, source, by, t) ==
    [id |-> id, question_text |-> text, group_name |-> group,
     source_shorthand |-> source, version |-> 1, is_active |-> TRUE,
     created_at |-> t, created_by |-> by, updated_at |-> t, updated_by |-> by]

\* A history row that takes the actor of the change as created_by.
HistoryCreatedByActor(hid, q, by, reason, t) ==
    [id |-> hid, question_id |-> q.id, question_text |-> q.question_text,
     group_name |-> q.group_name, source_shorthand |-> q.source_shorthand,
     version |-> q.version, created_at |-> q.created_at,
     created_by |-> by, replaced_at |-> t, replaced_by |-> by,
     reason |-> reason]

PromptTriggerQuestionHistory(hid, q, by, reason, t) ==
    [id |-> hid, question_id |-> q.id, question_text |-> q.question_text,
     group_name |-> q.group_name, source_shorthand |-> q.source_shorthand,
     version |-> q.version, created_at |-> q.created_at,
     created_by |-> q.created_by, replaced_at |-> t, replaced_by |-> by,
     reason |-> reason]

\* Python truthiness of an Optional[str] argument: None and "" are falsy.
Truthy(s) == s # NoneVal /\ s # ""

\* select(PromptTriggerQuestion).where(id == question_id) ... .first(),
\* as a set with at most one row
get_question_by_id(qs, id) == {q \in qs : q.id = id}

get_history_entry(hs, hid) == {h \in hs : h.id = hid}

get_question_history(hs, id) == {h \in hs : h.question_id = id}

\* The rank of a group name in the ascending order of ORDER BY group_name.
GroupRank(g) == CHOOSE i \in 1..Len(GroupOrder) : GroupOrder[i] = g

RowBefore(a, b) ==
    \/ GroupRank(a.group_name) < GroupRank(b.group_name)
    \/ a.group_name = b.group_name /\ a.id < b.id

RECURSIVE OrderByGroupId(_)
OrderByGroupId(S) ==
    IF S = {} THEN <<>>
    ELSE LET first == CHOOSE a \in S : \A b \in S \ {a} : RowBefore(a, b)
         IN  <<first>> \o OrderByGroupId(S \ {first})

QuestionFilter(q, source, group, include_inactive) ==
    /\ (~include_inactive) => q.is_active
    /\ Truthy(source) => q.source_shorthand = source
    /\ Truthy(group) => q.group_name = group

get_all_questions(qs, source, group, include_inactive) ==
    OrderByGroupId({q \in qs :
                       QuestionFilter(q, source, group, include_inactive)})

Range(s) == {s[i] : i \in 1..Len(s)}

\* What the flush of a loaded row writes: the UPDATE names the columns whose
\* value differs from the value the session loaded; the other columns of the
\* stored row stay as they are in the table.
Flush(stored, loaded, staged) ==
    [f \in DOMAIN stored |->
        IF staged[f] # loaded[f] THEN staged[f] ELSE stored[f]]

\* An update that forgets question.version += 1.
ApplyUpdateNoBump(q, by, text, group, source, t) ==
    [q EXCEPT !.question_text = IF text # NoneVal THEN text ELSE @,
              !.group_name = IF group # NoneVal THEN group ELSE @,
              !.source_shorthand = IF source # NoneVal THEN source ELSE @,
              !.updated_at = t,
              !.updated_by = by]

\* An update without the "is not None" tests: an absent field is assigned
\* as None.
ApplyUpdateUnconditional(q, by, text, group, source, t) ==
    [q EXCEPT !.question_text = text,
              !.group_name = group,
              !.source_shorthand = source,
              !.version = @ + 1,
              !.updated_at = t,
              !.updated_by = by]

\* An update that also makes the question active again.
ApplyUpdateReactivating(q, by, text, group, source, t) ==
    [q EXCEPT !.question_text = IF text # NoneVal THEN text ELSE @,
              !.group_name = IF group # NoneVal THEN group ELSE @,
              !.source_shorthand = IF source # NoneVal THEN source ELSE @,
              !.is_active = TRUE,
              !.version = @ + 1,
              !.updated_at = t,
              !.updated_by = by]

\* The assignments of update_question_with_history on the loaded row.
ApplyUpdate(q, by, text, group, source, t) ==
    [q EXCEPT !.question_text = IF text # NoneVal THEN text ELSE @,
              !.group_name = IF group # NoneVal THEN group ELSE @,
              !.source_shorthand = IF source # NoneVal THEN source ELSE @,
              !.version = @ + 1,
              !.updated_at = t,
              !.updated_by = by]

\* A toggle that forgets question.version += 1.
ApplyToggleNoBump(q, by, is_active, t) ==
    [q EXCEPT !.is_active = is_active, !.updated_at = t, !.updated_by = by]

\* The assignments of toggle_active_status on the loaded row.
ApplyToggle(q, by, is_active, t) ==
    [q EXCEPT !.is_active = is_active,
              !.version = @ + 1,
              !.updated_at = t,
              !.updated_by = by]

\* A toggle that stores the reason as it was given, None included.
ToggleReasonAsGiven(reason, is_active) == reason

ToggleReason(reason, is_active) ==
    IF Truthy(reason) THEN reason
    ELSE IF is_active THEN "Activated question" ELSE "Deactivated question"

RestoreReason(reason, h) ==
    IF Truthy(reason) THEN reason
    ELSE "Restored to version " \o ToString(h.version)

\* A toggle without the early return.
StatusUnchangedIgnored(q, is_active) == FALSE

\* question.is_active == is_active: the status is not changing
StatusUnchanged(q, is_active) == q.is_active = is_active

\* A rename that bumps the version like the tracked mutations do, still
\* without a history row.
RenamedBump(q, new_name, by, t) ==
    [q EXCEPT !.group_name = new_name, !.version = @ + 1, !.updated_at = t,
              !.updated_by = by]

\* The assignments of rename_group on one row of the group.
Renamed(q, new_name, by, t) ==
    [q EXCEPT !.group_name = new_name, !.updated_at = t, !.updated_by = by]

\* An ungrouping that bumps the version like the tracked mutations do.
UngroupedBump(q) == [q EXCEPT !.group_name = UNGROUPED, !.version = @ + 1]

\* The assignment of delete_group(delete_questions=False) on one row.
Ungrouped(q) == [q EXCEPT !.group_name = UNGROUPED]

\* A delete that leaves the history rows behind.
NoCascade(hs, ids) == hs

\* A delete that empties the history table.
TruncateHistory(hs, ids) == {}

\* The history rows left when the questions with these ids are deleted:
\* the relationship cascades the delete and the foreign key is ON DELETE
\* CASCADE.
CascadeDelete(hs, ids) == {h \in hs : h.question_id \notin ids}

\* A count of the active questions that forgets the where clause.
ActiveQuestionsUnfiltered(qs) == qs

\* .where(PromptTriggerQuestion.is_active == True)
ActiveQuestions(qs) == {q \in qs : q.is_active = TRUE}

\* select(column, func.count(id)) ... group_by(column) over the active
\* questions, as the dict the method builds from the rows.
CountBy(qs, column) ==
    [v \in {q[column] : q \in ActiveQuestions(qs)} |->
        Cardinality({q \in ActiveQuestions(qs) : q[column] = v})]

get_question_stats(qs) ==
    LET total_questions == Cardinality(qs)
        active_questions == Cardinality(ActiveQuestions(qs))
        by_source == CountBy(qs, "source_shorthand")
        by_group == CountBy(qs, "group_name")
    IN  [total_questions |-> total_questions,
         active_questions |-> active_questions,
         inactive_questions |-> total_questions - active_questions,
         total_groups |-> Cardinality(DOMAIN by_group),
         questions_by_source |-> by_source,
         questions_by_group |-> by_group]

Idle == [pc |-> "idle"]

\* What the caller of the last finished operation saw: the method, the
\* question id and history id it was given (0 when it takes none), the
\* group name or the status it was given (NoneVal when it takes none), the
\* delete_questions flag, what it returned and, for the group operations,
\* the number returned.
Result(op, id, hid, arg, flag, ret, n) ==
    [op |-> op, id |-> id, hid |-> hid, arg |-> arg, flag |-> flag,
     ret |-> ret, n |-> n]

Returned(op, id, hid, ret) == Result(op, id, hid, NoneVal, FALSE, ret, 0)

Toggled(id, is_active, ret) ==
    Result("toggle_active_status", id, 0, ToString(is_active), FALSE, ret, 0)

\* applied[id] counts the tracked mutations that have committed on question
\* id since it was created (history only; nothing reads it).
Init ==
    /\ questions = {}
    /\ history = {}
    /\ nextQid = 1
    /\ nextHid = 1
    /\ now = 0
    /\ last = Returned("init", 0, 0, "None")
    /\ sess = [s \in Sessions |-> Idle]
    /\ applied = <<>>

Forget(ids) == [i \in DOMAIN applied \ ids |-> applied[i]]

\* ------------------------------------------------ sequential operations
create_question(text, group, source, by) ==
    /\ now < MaxClock
    /\ now' = now + 1
    /\ questions' = questions \cup
          {PromptTriggerQuestion(nextQid, text, group, source, by, now')}
    /\ nextQid' = nextQid + 1
    /\ applied' = [i \in DOMAIN applied \cup {nextQid} |->
                      IF i = nextQid THEN 0 ELSE applied[i]]
    /\ last' = Returned("create_question", nextQid, 0, "Question")
    /\ UNCHANGED <<history, nextHid, sess>>

delete_question(id) ==
    /\ IF get_question_by_id(questions, id) = {}
       THEN /\ last' = Returned("delete_question", id, 0, "False")
            /\ UNCHANGED <<questions, history, applied>>
       ELSE /\ questions' = questions \ get_question_by_id(questions, id)
            /\ history' = CascadeDelete(history, {id})
            /\ applied' = Forget({id})
            /\ last' = Returned("delete_question", id, 0, "True")
    /\ UNCHANGED <<nextQid, nextHid, now, sess>>

\* The body of update_question_with_history, run to its commit in one step;
\* op and hid say which method the caller invoked
\* (restore_question_version delegates to this one).
UpdateWithHistory(op, id, hid, by, text, group, source, reason) ==
    IF get_question_by_id(questions, id) = {}
    THEN /\ last' = Returned(op, id, hid, "None")
         /\ UNCHANGED <<questions, history, nextQid, nextHid, now, sess,
                        applied>>
    ELSE LET q == CHOOSE r \in questions : r.id = id
             t == now + 1
             h == PromptTriggerQuestionHistory(nextHid, q, by, reason, t)
             staged == ApplyUpdate(q, by, text, group, source, t)
         IN  /\ now < MaxClock
             /\ now' = t
             /\ history' = history \cup {h}
             /\ questions' = (questions \ {q}) \cup {Flush(q, q, staged)}
             /\ nextHid' = nextHid + 1
             /\ applied' = [applied EXCEPT ![id] = @ + 1]
             /\ last' = Returned(op, id, hid, "Question")
             /\ UNCHANGED <<nextQid, sess>>

\* An update that returns the question as it is when no field is supplied.
update_skipping_empty_changes(id, by, text, group, source, reason) ==
    IF /\ get_question_by_id(questions, id) # {}
       /\ text = NoneVal /\ group = NoneVal /\ source = NoneVal
    THEN /\ last' = Returned("update_question_with_history", id, 0,
                             "Question")
         /\ UNCHANGED <<questions, history, nextQid, nextHid, now, sess,
                        applied>>
    ELSE UpdateWithHistory("update_question_with_history", id, 0, by, text,
                           group, source, reason)

update_question_with_history(id, by, text, group, source, reason) ==
    UpdateWithHistory("update_question_with_history", id, 0, by, text, group,
                      source, reason)

\* A toggle without the "not question" test: question.is_active on None
\* raises AttributeError, which the caller sees instead of None.
toggle_without_none_check(id, is_active, by, reason) ==
    IF get_question_by_id(questions, id) = {}
    THEN /\ last' = Toggled(id, is_active, "Raised")
         /\ UNCHANGED <<questions, history, nextQid, nextHid, now, sess,
                        applied>>
    ELSE LET q == CHOOSE r \in questions : r.id = id
             t == now + 1
             h == PromptTriggerQuestionHistory(nextHid, q, by,
                      ToggleReason(reason, is_active), t)
             staged == ApplyToggle(q, by, is_active, t)
         IN  IF StatusUnchanged(q, is_active)
             THEN /\ last' = Toggled(id, is_active, "Question")
                  /\ UNCHANGED <<questions, history, nextQid, nextHid, now,
                                 sess, applied>>
             ELSE /\ now < MaxClock
                  /\ now' = t
                  /\ history' = history \cup {h}
                  /\ questions' = (questions \ {q}) \cup {Flush(q, q, staged)}
                  /\ nextHid' = nextHid + 1
                  /\ applied' = [applied EXCEPT ![id] = @ + 1]
                  /\ last' = Toggled(id, is_active, "Question")
                  /\ UNCHANGED <<nextQid, sess>>

toggle_active_status(id, is_active, by, reason) ==
    IF get_question_by_id(questions, id) = {}
    THEN /\ last' = Toggled(id, is_active, "None")
         /\ UNCHANGED <<questions, history, nextQid, nextHid, now, sess,
                        applied>>
    ELSE LET q == CHOOSE r \in questions : r.id = id
             t == now + 1
             h == PromptTriggerQuestionHistory(nextHid, q, by,
                      ToggleReason(reason, is_active), t)
             staged == ApplyToggle(q, by, is_active, t)
         IN  IF StatusUnchanged(q, is_active)
             THEN /\ last' = Toggled(id, is_active, "Question")
                  /\ UNCHANGED <<questions, history, nextQid, nextHid, now,
                                 sess, applied>>
             ELSE /\ now < MaxClock
                  /\ now' = t
                  /\ history' = history \cup {h}
                  /\ questions' = (questions \ {q}) \cup {Flush(q, q, staged)}
                  /\ nextHid' = nextHid + 1
                  /\ applied' = [applied EXCEPT ![id] = @ + 1]
                  /\ last' = Toggled(id, is_active, "Question")
                  /\ UNCHANGED <<nextQid, sess>>

\* history_entry is None, or it belongs to another question
RestoreRejected(hs, id, hid) ==
    \/ get_history_entry(hs, hid) = {}
    \/ \E h \in get_history_entry(hs, hid) : h.question_id # id

\* A restore without the "not history_entry" test: history_entry.question_id
\* on None raises AttributeError, which the caller sees instead of None.
restore_without_none_check(id, hid, by, reason) ==
    IF get_history_entry(history, hid) = {}
    THEN /\ last' = Returned("restore_question_version", id, hid, "Raised")
         /\ UNCHANGED <<questions, history, nextQid, nextHid, now, sess,
                        applied>>
    ELSE IF RestoreRejected(history, id, hid)
    THEN /\ last' = Returned("restore_question_version", id, hid, "None")
         /\ UNCHANGED <<questions, history, nextQid, nextHid, now, sess,
                        applied>>
    ELSE LET h == CHOOSE e \in history : e.id = hid
         IN  UpdateWithHistory("restore_question_version", id, hid, by,
                 h.question_text, h.group_name, h.source_shorthand,
                 RestoreReason(reason, h))

restore_question_version(id, hid, by, reason) ==
    IF RestoreRejected(history, id, hid)
    THEN /\ last' = Returned("restore_question_version", id, hid, "None")
         /\ UNCHANGED <<questions, history, nextQid, nextHid, now, sess,
                        applied>>
    ELSE LET h == CHOOSE e \in history : e.id = hid
         IN  UpdateWithHistory("restore_question_version", id, hid, by,
                 h.question_text, h.group_name, h.source_shorthand,
                 RestoreReason(reason, h))

rename_group(old_name, new_name, by) ==
    LET qs == get_all_questions(questions, NoneVal, old_name, TRUE)
        t == now + 1
    IN  /\ qs # <<>> => now < MaxClock
        /\ now' = IF qs # <<>> THEN t ELSE now
        /\ questions' = (questions \ Range(qs)) \cup
              {Flush(q, q, Renamed(q, new_name, by, t)) : q \in Range(qs)}
        /\ last' = Result("rename_group", 0, 0, old_name, FALSE, "Count",
                          Len(qs))
        /\ UNCHANGED <<history, nextQid, nextHid, sess, applied>>

\* delete_questions = FALSE assigns group_name only; updated_at has
\* onupdate=utcnow, so the UPDATE of a row whose group_name changes stamps it.
delete_group(group_name, delete_questions) ==
    LET qs == get_all_questions(questions, NoneVal, group_name, TRUE)
        t == now + 1
        written(q) == IF Ungrouped(q) = q THEN q
                      ELSE [Flush(q, q, Ungrouped(q)) EXCEPT !.updated_at = t]
        changes == \E q \in Range(qs) : Ungrouped(q) # q
    IN  /\ IF delete_questions
           THEN /\ questions' = questions \ Range(qs)
                /\ history' = CascadeDelete(history, {q.id : q \in Range(qs)})
                /\ applied' = Forget({q.id : q \in Range(qs)})
                /\ now' = now
           ELSE /\ changes => now < MaxClock
                /\ now' = IF changes THEN t ELSE now
                /\ questions' = (questions \ Range(qs)) \cup
                                    {written(q) : q \in Range(qs)}
                /\ UNCHANGED <<history, applied>>
        /\ last' = Result("delete_group", 0, 0, group_name, delete_questions,
                          "Count", Len(qs))
        /\ UNCHANGED <<nextQid, nextHid, sess>>

\* The ids a caller passes: every stored id and one id that is not stored.
QuestionIds == {q.id : q \in questions} \cup {nextQid}
HistoryIds == {h.id : h \in history} \cup {nextHid}

Next ==
    \/ \E c \in CreateInputs, a \in Creators :
          create_question(c[1], c[2], c[3], a)
    \/ \E id \in QuestionIds : delete_question(id)
    \/ \E id \in QuestionIds, u \in Callers, c \in FieldChanges :
          update_question_with_history(id, u[1], c[1], c[2], c[3], u[2])
    \/ \E id \in QuestionIds, b \in BOOLEAN, u \in Callers :
          toggle_active_status(id, b, u[1], u[2])
    \/ \E id \in QuestionIds, hid \in HistoryIds, u \in Callers :
          restore_question_version(id, hid, u[1], u[2])
    \/ \E r \in RenameInputs : rename_group(r[1], r[2], r[3])
    \/ \E g \in GroupArgs, d \in BOOLEAN : delete_group(g, d)

Spec == Init /\ [][Next]_vars

\* ------------------------------------------- overlapping sessions (SpecTx)
\* A tracked mutation up to its commit: the session has read the row
\* (loaded), built the history row and assigned the new values (staged);
\* nothing is written before session.commit().  The history row gets its
\* id from the table when it is inserted.
Staged(op, hid, loaded, staged, h) ==
    [pc |-> "staged", op |-> op, hid |-> hid, loaded |-> loaded,
     staged |-> staged, hist |-> h]

\* What the caller of the operation staged in session s sees when it ends.
Finished(s, ret) ==
    Result(sess[s].op, sess[s].loaded.id, sess[s].hid,
           IF sess[s].op = "toggle_active_status"
           THEN ToString(sess[s].staged.is_active) ELSE NoneVal,
           FALSE, ret, 0)

\* The sessions are interchangeable: a request takes the first free one.
FreeSession(s) ==
    /\ sess[s].pc = "idle"
    /\ s = "s2" => sess["s1"].pc # "idle"

TxUpdateWithHistory(s, op, id, hid, by, text, group, source, reason) ==
    /\ FreeSession(s)
    /\ IF get_question_by_id(questions, id) = {}
       THEN /\ last' = Returned(op, id, hid, "None")
            /\ UNCHANGED <<now, sess>>
       ELSE LET q == CHOOSE r \in questions : r.id = id
                t == now + 1
            IN  /\ now < MaxClock
                /\ now' = t
                /\ sess' = [sess EXCEPT ![s] =
                      Staged(op, hid, q,
                             ApplyUpdate(q, by, text, group, source, t),
                             PromptTriggerQuestionHistory(0, q, by, reason, t))]
                /\ UNCHANGED last
    /\ UNCHANGED <<questions, history, nextQid, nextHid, applied>>

TxUpdate(s, id, by, text, group, source, reason) ==
    TxUpdateWithHistory(s, "update_question_with_history", id, 0, by, text,
                        group, source, reason)

TxToggle(s, id, is_active, by, reason) ==
    /\ FreeSession(s)
    /\ IF get_question_by_id(questions, id) = {}
       THEN /\ last' = Toggled(id, is_active, "None")
            /\ UNCHANGED <<now, sess>>
       ELSE LET q == CHOOSE r \in questions : r.id = id
                t == now + 1
            IN  IF StatusUnchanged(q, is_active)
                THEN /\ last' = Toggled(id, is_active, "Question")
                     /\ UNCHANGED <<now, sess>>
                ELSE /\ now < MaxClock
                     /\ now' = t
                     /\ sess' = [sess EXCEPT ![s] =
                           Staged("toggle_active_status", 0, q,
                                  ApplyToggle(q, by, is_active, t),
                                  PromptTriggerQuestionHistory(0, q, by,
                                      ToggleReason(reason, is_active), t))]
                     /\ UNCHANGED last
    /\ UNCHANGED <<questions, history, nextQid, nextHid, applied>>

\* The history row is read first and the question after it; history rows
\* are never written again and SpecTx deletes nothing, so the two reads see
\* what one read of both would see.
TxRestore(s, id, hid, by, reason) ==
    IF RestoreRejected(history, id, hid)
    THEN /\ FreeSession(s)
         /\ last' = Returned("restore_question_version", id, hid, "None")
         /\ UNCHANGED <<questions, history, nextQid, nextHid, now, sess,
                        applied>>
    ELSE LET h == CHOOSE e \in history : e.id = hid
         IN  TxUpdateWithHistory(s, "restore_question_version", id, hid, by,
                 h.question_text, h.group_name, h.source_shorthand,
                 RestoreReason(reason, h))

\* A commit with an optimistic version check (the mapper's version_id_col):
\* the UPDATE matches no row when the stored version is not the loaded one,
\* and the operation reports the conflict and stores nothing.
TxCommitVersionChecked(s) ==
    /\ sess[s].pc = "staged"
    /\ LET stored == CHOOSE r \in questions : r.id = sess[s].loaded.id
       IN  IF stored.version = sess[s].loaded.version
           THEN /\ questions' = (questions \ {stored}) \cup
                      {Flush(stored, sess[s].loaded, sess[s].staged)}
                /\ history' = history \cup
                      {[sess[s].hist EXCEPT !.id = nextHid]}
                /\ nextHid' = nextHid + 1
                /\ applied' = [applied EXCEPT ![sess[s].loaded.id] = @ + 1]
                /\ last' = Finished(s, "Question")
           ELSE /\ last' = Finished(s, "Conflict")
                /\ UNCHANGED <<questions, history, nextHid, applied>>
    /\ sess' = [sess EXCEPT ![s] = Idle]
    /\ UNCHANGED <<nextQid, now>>

\* session.commit(): the INSERT of the history row and the UPDATE of the
\* question in one transaction, then refresh and return.
TxCommit(s) ==
    /\ sess[s].pc = "staged"
    /\ LET stored == CHOOSE r \in questions : r.id = sess[s].loaded.id
       IN  /\ questions' = (questions \ {stored}) \cup
                 {Flush(stored, sess[s].loaded, sess[s].staged)}
           /\ history' = history \cup {[sess[s].hist EXCEPT !.id = nextHid]}
    /\ nextHid' = nextHid + 1
    /\ applied' = [applied EXCEPT ![sess[s].loaded.id] = @ + 1]
    /\ last' = Finished(s, "Question")
    /\ sess' = [sess EXCEPT ![s] = Idle]
    /\ UNCHANGED <<nextQid, now>>

\* A handler that commits the history row on its own before it updates the
\* question: a failure after that leaves the history row stored.
TxFailAfterHistoryCommit(s) ==
    /\ sess[s].pc = "staged"
    /\ history' = history \cup {[sess[s].hist EXCEPT !.id = nextHid]}
    /\ nextHid' = nextHid + 1
    /\ last' = Finished(s, "Raised")
    /\ sess' = [sess EXCEPT ![s] = Idle]
    /\ UNCHANGED <<questions, nextQid, now, applied>>

\* The store fails before or at the commit: the exception propagates, the
\* transaction is rolled back and nothing of it is stored.
TxFail(s) ==
    /\ sess[s].pc = "staged"
    /\ last' = Finished(s, "Raised")
    /\ sess' = [sess EXCEPT ![s] = Idle]
    /\ UNCHANGED <<questions, history, nextQid, nextHid, now, applied>>

NextTx ==
    \/ \E c \in TxCreateInputs, a \in Creators :
          create_question(c[1], c[2], c[3], a)
    \/ \E s \in Sessions, id \in QuestionIds, u \in Callers,
          c \in FieldChanges :
          TxUpdate(s, id, u[1], c[1], c[2], c[3], u[2])
    \/ \E s \in Sessions, id \in QuestionIds, b \in BOOLEAN, u \in Callers :
          TxToggle(s, id, b, u[1], u[2])
    \/ \E s \in Sessions, id \in QuestionIds, hid \in HistoryIds,
          u \in Callers :
          TxRestore(s, id, hid, u[1], u[2])
    \/ \E s \in Sessions : TxCommit(s)
    \/ \E s \in Sessions : TxFail(s)

SpecTx == Init /\ [][NextTx]_vars

\* ================================================================ claims
HistoryOf(id) == get_question_history(history, id)
HistoryOfNext(id) == get_question_history(history', id)
VersionsOf(id) == {h.version : h \in HistoryOf(id)}
ContentFields == {"question_text", "group_name", "source_shorthand"}
SameContent(a, b) == \A f \in ContentFields : a[f] = b[f]

\* C1: after N successful tracked mutations (update, status-changing toggle,
\* restore) of a question since its creation, its version is N + 1 and it
\* has exactly N history rows, with the versions 1..N, one each.
C1_VersionCountsMutations ==
    \A q \in questions :
        /\ q.version = applied[q.id] + 1
        /\ Cardinality(HistoryOf(q.id)) = applied[q.id]
        /\ VersionsOf(q.id) = 1..applied[q.id]

\* Two tracked mutations of different kinds have been applied to a question.
C1_Witness ==
    /\ last.op = "restore_question_version"
    /\ last.ret = "Question"
    /\ \E q \in questions :
          /\ q.id = last.id
          /\ applied[q.id] = 2
          /\ q.version = 3
          /\ \E h \in HistoryOf(q.id) : h.reason = "Deactivated question"

\* C2: in every state reached by repository operations run one after
\* another, each question's version is greater than every version in its
\* history rows, and its history versions are exactly 1..version-1 with no
\* gap and no duplicate.
C2_GapFreeHistory ==
    \A q \in questions :
        /\ \A h \in HistoryOf(q.id) : h.version < q.version
        /\ VersionsOf(q.id) = 1..(q.version - 1)
        /\ Cardinality(HistoryOf(q.id)) = q.version - 1

\* A question with history has just been renamed into another group.
C2_Witness ==
    /\ last.op = "rename_group"
    /\ last.n > 0
    /\ \E q \in questions :
          /\ q.version = 2
          /\ \E h \in HistoryOf(q.id) : h.group_name # q.group_name

\* The step ends the tracked mutation that session s has staged.
Ends(s) == sess[s].pc = "staged" /\ sess'[s].pc = "idle"

StoredRow(id) == CHOOSE r \in questions : r.id = id
StoredRowNext(id) == CHOOSE r \in questions' : r.id = id

\* The step stores the history row session s has staged, and nothing else
\* in the history table.
HistoryRowStored(s) ==
    \E h \in history' \ history :
        /\ [h EXCEPT !.id = 0] = sess[s].hist
        /\ history' = history \cup {h}

\* The step stores what session s assigned to its question: every column it
\* gave a new value, so version = the version it read + 1 and the changed
\* fields; when no other commit came between its read and this step, the
\* stored row is the row it staged, new updated_by included.  No other
\* question changes.
QuestionRowStored(s) ==
    LET id == sess[s].loaded.id
    IN  /\ \E r \in questions' : r.id = id
        /\ \A f \in DOMAIN sess[s].staged :
              sess[s].staged[f] # sess[s].loaded[f]
                  => StoredRowNext(id)[f] = sess[s].staged[f]
        /\ StoredRowNext(id).version = sess[s].loaded.version + 1
        /\ StoredRow(id) = sess[s].loaded
              => StoredRowNext(id) = sess[s].staged
        /\ \A r \in questions : r.id # id => r \in questions'

C3_Step ==
    /\ \A s \in Sessions :
          Ends(s) =>
              \/ HistoryRowStored(s) /\ QuestionRowStored(s)
              \/ questions' = questions /\ history' = history
    /\ \A s \in Sessions :
          (Ends(s) /\ last'.ret = "Raised")
              => questions' = questions /\ history' = history
    /\ (\A s \in Sessions : ~Ends(s))
          => history' = history /\ questions \subseteq questions'

\* C3: a tracked mutation is all-or-nothing.  The step that ends it stores
\* both its history row and its updated question (new fields, version + 1,
\* new updated_by) or, when it fails before or at the commit, leaves both
\* tables as they were; no other step of it stores anything.
C3_AllOrNothing == [][C3_Step]_vars

\* One tracked mutation has committed and a later one has failed.
C3_Witness ==
    /\ last.ret = "Raised"
    /\ \E q \in questions :
          /\ q.id = last.id
          /\ q.version = 2
          /\ Cardinality(HistoryOf(q.id)) = 1

\* Session s commits an update although another update of the same question
\* has committed since s read it.
OverlappedUpdateCommits(s) ==
    /\ Ends(s)
    /\ last'.ret # "Raised"
    /\ sess[s].op = "update_question_with_history"
    /\ StoredRow(sess[s].loaded.id) # sess[s].loaded
    /\ StoredRow(sess[s].loaded.id).is_active = sess[s].loaded.is_active

\* Both operations are recorded: no conflict is reported, and the history
\* row of the later one is stored next to the row of the earlier one, which
\* carries the time the earlier one stamped on the stored question.
BothRecorded(s) ==
    /\ last'.ret = "Question"
    /\ HistoryRowStored(s)
    /\ \E h \in history :
          /\ h.question_id = sess[s].loaded.id
          /\ h.replaced_at = StoredRow(sess[s].loaded.id).updated_at

\* C4 as claimed: when two updates of one question overlap, neither reports
\* a conflict, both history rows are recorded, and the live content fields
\* after both commits are the content fields of the later commit.
C4_LaterCommitWins ==
    [][\A s \in Sessions :
          OverlappedUpdateCommits(s) =>
              /\ BothRecorded(s)
              /\ SameContent(StoredRowNext(sess[s].loaded.id), sess[s].staged)
      ]_vars

\* C4 as amended: neither reports a conflict, both history rows are
\* recorded, and each content field the later operation changed has the
\* later operation's value, while a content field it left as it had read it
\* keeps the value the earlier commit stored.
C4_LaterCommitWinsPerField ==
    [][\A s \in Sessions :
          OverlappedUpdateCommits(s) =>
              /\ BothRecorded(s)
              /\ \A f \in ContentFields :
                    StoredRowNext(sess[s].loaded.id)[f] =
                        IF sess[s].staged[f] # sess[s].loaded[f]
                        THEN sess[s].staged[f]
                        ELSE StoredRow(sess[s].loaded.id)[f]
      ]_vars

\* Two updates that both read version 1 have committed: one changed the
\* text, the other the group, and both changes are live.
C4_Witness ==
    /\ last.op = "update_question_with_history"
    /\ last.ret = "Question"
    /\ \E q \in questions :
          /\ q.version = 2
          /\ Cardinality(HistoryOf(q.id)) = 2
          /\ \A h \in HistoryOf(q.id) :
                /\ h.version = 1
                /\ h.question_text # q.question_text
                /\ h.group_name # q.group_name

\* C5: restore_question_version on a history row of the question sets the
\* live question_text, group_name and source_shorthand to the row's values,
\* sets version to the version before the restore + 1, never to the row's
\* version, and adds one history row with the content and version before
\* the restore.
C5_Step ==
    (last'.op = "restore_question_version" /\ last'.ret = "Question") =>
        \E h \in history, q \in questions :
            /\ h.id = last'.hid
            /\ q.id = last'.id
            /\ h.question_id = q.id
            /\ \E r \in questions' :
                  /\ r.id = q.id
                  /\ SameContent(r, h)
                  /\ r.version = q.version + 1
                  /\ r.version # h.version
            /\ \E n \in history' \ history :
                  /\ history' = history \cup {n}
                  /\ n.question_id = q.id
                  /\ SameContent(n, q)
                  /\ n.version = q.version

C5_RestoreContentNewVersion == [][C5_Step]_vars

\* Version 1 has been restored at version 2: the question is at version 3
\* with the content of version 1, which version 2 did not have.
C5_Witness ==
    /\ last.op = "restore_question_version"
    /\ last.ret = "Question"
    /\ \E q \in questions, h1, h2 \in history :
          /\ q.id = last.id /\ h1.question_id = q.id /\ h2.question_id = q.id
          /\ h1.id = last.hid
          /\ q.version = 3 /\ h1.version = 1 /\ h2.version = 2
          /\ SameContent(q, h1)
          /\ h2.group_name # h1.group_name

\* C6: restore_question_version returns None whenever the history id does
\* not exist or its row belongs to another question, and then no question
\* and no history row is created, changed or deleted.
C6_Step ==
    (/\ last'.op = "restore_question_version"
     /\ ~ \E h \in history : h.id = last'.hid /\ h.question_id = last'.id)
        => /\ last'.ret = "None"
           /\ questions' = questions
           /\ history' = history

C6_RestoreRejected == [][C6_Step]_vars

\* A restore of an existing question from a history row of another question
\* has returned None.
C6_Witness ==
    /\ last.op = "restore_question_version"
    /\ last.ret = "None"
    /\ \E q \in questions : q.id = last.id
    /\ \E h \in history : h.id = last.hid /\ h.question_id # last.id

\* C7: toggle_active_status with is_active equal to the current status
\* creates no history row and leaves the whole question unchanged, whatever
\* reason and actor are passed.
C7_Step ==
    \A q \in questions :
        (/\ last'.op = "toggle_active_status"
         /\ last'.id = q.id
         /\ last'.arg = ToString(q.is_active))
            => /\ questions' = questions
               /\ history' = history
               /\ last'.ret = "Question"

C7_NoOpToggle == [][C7_Step]_vars

\* A deactivated question has been toggled to inactive again: it is still at
\* version 2, stamped at the deactivation, with the one history row of the
\* deactivation.
C7_Witness ==
    /\ last.op = "toggle_active_status"
    /\ last.arg = "FALSE"
    /\ last.ret = "Question"
    /\ now = 2
    /\ \E q \in questions :
          /\ q.id = last.id
          /\ ~q.is_active
          /\ q.version = 2
          /\ q.updated_at = 2
          /\ Cardinality(HistoryOf(q.id)) = 1

\* C8: after a successful delete_question(id) no history row of id exists
\* and the questions and history rows of every other question are
\* unchanged; the same holds for each question delete_group removes with
\* delete_questions = TRUE.
C8_Step ==
    /\ (last'.op = "delete_question" /\ last'.ret = "True") =>
          /\ HistoryOfNext(last'.id) = {}
          /\ questions' = {q \in questions : q.id # last'.id}
          /\ questions' # questions
          /\ \A q \in questions' : HistoryOfNext(q.id) = HistoryOf(q.id)
    /\ (last'.op = "delete_group" /\ last'.flag) =>
          /\ questions' \subseteq questions
          /\ \A q \in questions \ questions' : HistoryOfNext(q.id) = {}
          /\ \A q \in questions' : HistoryOfNext(q.id) = HistoryOf(q.id)

C8_DeleteCascades == [][C8_Step]_vars

\* A question that had a history row has been deleted; another question is
\* still stored.
C8_Witness ==
    /\ last.op = "delete_question"
    /\ last.ret = "True"
    /\ nextHid > 1
    /\ history = {}
    /\ questions # {}

\* C9: rename_group(old, new, actor) returns the number of questions whose
\* group_name was old, sets group_name = new and updated_by = actor on
\* exactly those questions, creates no history row and leaves every version
\* unchanged.
C9_Step ==
    last'.op = "rename_group" =>
        LET members == {q \in questions : q.group_name = last'.arg}
        IN  /\ last'.n = Cardinality(members)
            /\ history' = history
            /\ \A q \in questions :
                  \E r \in questions' :
                      /\ r.id = q.id
                      /\ r.version = q.version
                      /\ q \notin members => r = q
            /\ \E new \in Groups, a \in Actors :
                  \A q \in members :
                      \E r \in questions' :
                          /\ r.id = q.id
                          /\ r.group_name = new
                          /\ r.updated_by = a

C9_RenameGroup == [][C9_Step]_vars

\* C10: for every group-name argument, the empty string included,
\* rename_group and delete_group touch only questions whose group_name is
\* the argument: a question of another group keeps its group_name, is not
\* deleted and is not counted in the returned number.
C10_Step ==
    last'.op \in {"rename_group", "delete_group"} =>
        /\ last'.n = Cardinality({q \in questions : q.group_name = last'.arg})
        /\ \A q \in questions :
              q.group_name # last'.arg =>
                  \E r \in questions' :
                      r.id = q.id /\ r.group_name = q.group_name

C10_OnlyTheNamedGroup == [][C10_Step]_vars

\* C11: delete_group(group_name, delete_questions) returns the number of
\* questions, active and inactive, whose group_name is group_name; with
\* delete_questions = TRUE each of them and all its history rows are
\* removed; with delete_questions = FALSE each of them gets group_name
\* "Ungrouped", none is deleted, no history row is created and no version
\* changes.
C11_Step ==
    last'.op = "delete_group" =>
        LET members == {q \in questions : q.group_name = last'.arg}
            ids == {q.id : q \in members}
        IN  /\ last'.n = Cardinality(members)
            /\ last'.flag =>
                  /\ questions' = questions \ members
                  /\ history' = {h \in history : h.question_id \notin ids}
            /\ ~last'.flag =>
                  /\ history' = history
                  /\ {r.id : r \in questions'} = {q.id : q \in questions}
                  /\ \A q \in questions :
                        \E r \in questions' :
                            /\ r.id = q.id
                            /\ r.version = q.version
                            /\ q \in members => r.group_name = UNGROUPED

C11_DeleteGroup == [][C11_Step]_vars

\* C12: update_question_with_history on an existing question with
\* question_text, group_name and source_shorthand all absent still adds one
\* history row with the current content and version, increments version by
\* exactly 1 and sets updated_by, while the content fields stay the same.
C12_Step ==
    \A q \in questions, u \in Callers :
        (/\ last'.op = "update_question_with_history"
         /\ last'.id = q.id
         /\ update_question_with_history(q.id, u[1], NoneVal, NoneVal,
                                         NoneVal, u[2]))
            => /\ \E n \in history' \ history :
                     /\ history' = history \cup {n}
                     /\ n.question_id = q.id
                     /\ SameContent(n, q)
                     /\ n.version = q.version
               /\ \E r \in questions' :
                     /\ r.id = q.id
                     /\ r.version = q.version + 1
                     /\ r.updated_by = u[1]
                     /\ SameContent(r, q)
                     /\ questions' = (questions \ {q}) \cup {r}

C12_EmptyUpdateStillVersions == [][C12_Step]_vars

\* An update by another actor than the creator has left the content of a
\* fresh question as it was: the question is at version 2 and its one
\* history row has the same content.
C12_Witness ==
    /\ last.op = "update_question_with_history"
    /\ last.ret = "Question"
    /\ \E q \in questions :
          /\ q.id = last.id
          /\ q.version = 2
          /\ q.created_by = "u1"
          /\ q.updated_by = "u2"
          /\ q.question_text = "Q1"
          /\ q.group_name = "G"
          /\ \E h \in HistoryOf(q.id) : SameContent(h, q) /\ h.version = 1

\* C13: the history log is append-only.  Every operation leaves each stored
\* history row as it is, all fields alike, rename_group and delete_group
\* without deletion included; a history row disappears only in a step that
\* deletes the question it belongs to.
C13_Step ==
    \A h \in history :
        \/ h \in history'
        \/ /\ \E q \in questions : q.id = h.question_id
           /\ ~ \E r \in questions' : r.id = h.question_id
           /\ ~ \E n \in history' : n.id = h.id

C13_HistoryAppendOnly == [][C13_Step]_vars

\* A question with a history row has been ungrouped: the row still shows
\* the group the question had before.
C13_Witness ==
    /\ last.op = "delete_group"
    /\ ~last.flag
    /\ last.n > 0
    /\ \E q \in questions :
          /\ q.group_name = UNGROUPED
          /\ \E h \in HistoryOf(q.id) :
                /\ h.group_name # UNGROUPED
                /\ h.version = 1

\* C14: update_question_with_history and toggle_active_status on a question
\* id that is not stored return None without raising, create no history row
\* and change no stored question.
C14_Step ==
    (/\ last'.op \in {"update_question_with_history", "toggle_active_status"}
     /\ ~ \E q \in questions : q.id = last'.id)
        => /\ last'.ret = "None"
           /\ questions' = questions
           /\ history' = history

C14_AbsentQuestion == [][C14_Step]_vars

\* An update of an id that is not stored has returned None while a question
\* with history is stored.
C14_Witness ==
    /\ last.op = "update_question_with_history"
    /\ last.ret = "None"
    /\ ~ \E q \in questions : q.id = last.id
    /\ \E q \in questions : HistoryOf(q.id) # {}

\* C15: toggle_active_status with is_active different from the current
\* status adds one history row with the content and version before the
\* toggle, sets is_active to the new value, increments version by 1, leaves
\* question_text, group_name and source_shorthand unchanged and, when no
\* reason is given, records "Activated question" (new status TRUE) or
\* "Deactivated question" (new status FALSE).
C15_Step ==
    \A q \in questions :
        /\ (/\ last'.op = "toggle_active_status"
            /\ last'.id = q.id
            /\ last'.arg # ToString(q.is_active))
              => /\ last'.ret = "Question"
                 /\ \E n \in history' \ history :
                       /\ history' = history \cup {n}
                       /\ n.question_id = q.id
                       /\ SameContent(n, q)
                       /\ n.version = q.version
                 /\ \E r \in questions' :
                       /\ r.id = q.id
                       /\ r.is_active = ~q.is_active
                       /\ ToString(r.is_active) = last'.arg
                       /\ r.version = q.version + 1
                       /\ SameContent(r, q)
                       /\ questions' = (questions \ {q}) \cup {r}
        /\ (last'.op = "toggle_active_status" /\ last'.id = q.id) =>
              \A b \in BOOLEAN \ {q.is_active}, a \in Actors :
                  toggle_active_status(q.id, b, a, NoneVal)
                      => \A n \in history' \ history :
                            n.reason = IF b THEN "Activated question"
                                       ELSE "Deactivated question"

C15_StatusChange == [][C15_Step]_vars

\* A question has been deactivated and activated again, both times without
\* a reason: it is active at version 3 and its history shows both default
\* reasons.
C15_Witness ==
    /\ last.op = "toggle_active_status"
    /\ last.arg = "TRUE"
    /\ \E q \in questions :
          /\ q.id = last.id
          /\ q.is_active
          /\ q.version = 3
          /\ \E h1, h2 \in HistoryOf(q.id) :
                /\ h1.version = 1 /\ h1.reason = "Deactivated question"
                /\ h2.version = 2 /\ h2.reason = "Activated question"

\* C16: in every reachable state get_question_stats returns
\* inactive_questions = total_questions - active_questions, with
\* total_questions the number of stored questions and active_questions the
\* number of them with is_active true, so inactive_questions is the number
\* of stored questions with is_active false.
C16_StatsAddUp ==
    LET stats == get_question_stats(questions)
    IN  /\ stats.inactive_questions =
              stats.total_questions - stats.active_questions
        /\ stats.total_questions = Cardinality(questions)
        /\ stats.active_questions =
              Cardinality({q \in questions : q.is_active})
        /\ stats.inactive_questions =
              Cardinality({q \in questions : ~q.is_active})

\* One active and one inactive question are stored.
C16_Witness ==
    /\ get_question_stats(questions).total_questions = 2
    /\ get_question_stats(questions).active_questions = 1
    /\ get_question_stats(questions).inactive_questions = 1
    /\ \E q \in questions : ~q.is_active

\* The stored questions a listing with these filters is to return: a filter
\* that is given (not None) must be equal to the question's value.
Matching(source, group, include_inactive) ==
    {q \in questions :
        /\ include_inactive \/ q.is_active
        /\ source # NoneVal => q.source_shorthand = source
        /\ group # NoneVal => q.group_name = group}

\* C17: get_all_questions returns exactly the stored questions that satisfy
\* every given filter (source_shorthand, group_name), only the active ones
\* unless include_inactive is true, ordered by (group_name, id) ascending,
\* for every filter value a caller can pass; a group filter that names no
\* existing group yields the empty list.
C17_ListQuestions ==
    \A source \in SourceFilters, group \in GroupFilters,
       include_inactive \in BOOLEAN :
        LET res == get_all_questions(questions, source, group,
                                     include_inactive)
        IN  /\ Range(res) = Matching(source, group, include_inactive)
            /\ Len(res) = Cardinality(Range(res))
            /\ \A i, j \in 1..Len(res) : i < j => RowBefore(res[i], res[j])

\* The step adds one history row, which holds question q as it is before
\* the step, with actor as replaced_by.
SnapshotStored(q, actor) ==
    \E n \in history' \ history :
        /\ history' = history \cup {n}
        /\ n.question_id = q.id
        /\ SameContent(n, q)
        /\ n.version = q.version
        /\ n.created_by = q.created_by
        /\ n.created_at = q.created_at
        /\ n.replaced_by = actor

\* The step replaces question q by a row with this content and status, and
\* changes no other question.
ContentAfter(q, text, group, source, is_active) ==
    \E r \in questions' :
        /\ r.id = q.id
        /\ r.question_text = text
        /\ r.group_name = group
        /\ r.source_shorthand = source
        /\ r.is_active = is_active
        /\ questions' = (questions \ {q}) \cup {r}

\* The value of a field after an update: the supplied one, or the one the
\* question had when the field is absent.
Supplied(value, old) == IF value # NoneVal THEN value ELSE old

C18_Step ==
    \A q \in questions, u \in Callers :
        (last'.id = q.id /\ last'.ret = "Question") =>
            /\ last'.op = "update_question_with_history" =>
                  \A c \in FieldChanges :
                      update_question_with_history(q.id, u[1], c[1], c[2],
                                                   c[3], u[2])
                          => /\ SnapshotStored(q, u[1])
                             /\ ContentAfter(q,
                                    Supplied(c[1], q.question_text),
                                    Supplied(c[2], q.group_name),
                                    Supplied(c[3], q.source_shorthand),
                                    q.is_active)
            /\ last'.op = "toggle_active_status" =>
                  \A b \in BOOLEAN \ {q.is_active} :
                      toggle_active_status(q.id, b, u[1], u[2])
                          => /\ SnapshotStored(q, u[1])
                             /\ ContentAfter(q, q.question_text,
                                    q.group_name, q.source_shorthand, b)
            /\ last'.op = "restore_question_version" =>
                  \A h \in HistoryOf(q.id) :
                      restore_question_version(q.id, h.id, u[1], u[2])
                          => /\ SnapshotStored(q, u[1])
                             /\ ContentAfter(q, h.question_text,
                                    h.group_name, h.source_shorthand,
                                    q.is_active)

\* C18: every history row created by a tracked mutation holds the
\* question's values as they were immediately before the mutation
\* (question_text, group_name, source_shorthand, version, created_by) and
\* the actor of the mutation as replaced_by; the mutation changes only the
\* fields that were supplied (is_active for a toggle, the row's content for
\* a restore) and leaves the absent fields, and is_active where it is not
\* the supplied field, as they were.
C18_SnapshotBeforeChange == [][C18_Step]_vars

\* An actor other than the creator has changed the text only: the history
\* row holds the old text, the creator and the actor, and the group and the
\* source of the question are the ones it was created with.
C18_Witness ==
    /\ last.op = "update_question_with_history"
    /\ last.ret = "Question"
    /\ \E q \in questions :
          /\ q.id = last.id
          /\ q.version = 2
          /\ q.question_text = "Q2"
          /\ q.group_name = "G"
          /\ q.source_shorthand = "A"
          /\ \E h \in HistoryOf(q.id) :
                /\ h.question_text = "Q1"
                /\ h.group_name = "G"
                /\ h.created_by = "u1"
                /\ h.replaced_by = "u2"

\* C19: under every interleaving of two tracked mutations of one question
\* (each reads the question, then stores its history row and the bumped
\* version at its commit), the history versions of the question are
\* pairwise distinct and are exactly 1..version-1.
C19_GapFreeUnderOverlap ==
    \A q \in questions :
        /\ \A h1, h2 \in HistoryOf(q.id) :
              h1.version = h2.version => h1 = h2
        /\ VersionsOf(q.id) = 1..(q.version - 1)

\* C20: the created_by and created_at of a stored question never change
\* after create_question, whatever operation runs (update, toggle, restore,
\* rename_group, delete_group), and all history rows of a question carry
\* the created_by of the live question.
C20_Step ==
    /\ \A q \in questions, r \in questions' :
          r.id = q.id =>
              /\ r.created_by = q.created_by
              /\ r.created_at = q.created_at
    /\ \A r \in questions', h \in history' :
          h.question_id = r.id => h.created_by = r.created_by

C20_CreatedByImmutable == [][C20_Step]_vars

\* A question created by one actor has been updated by another and then
\* moved to another group: it and its history row still name the creator
\* and the time of creation.
C20_Witness ==
    /\ last.op = "rename_group"
    /\ last.n > 0
    /\ \E q \in questions :
          /\ q.created_by = "u1"
          /\ q.updated_by = "u2"
          /\ q.created_at = 1
          /\ q.updated_at = 3
          /\ q.version = 2
          /\ \E h \in HistoryOf(q.id) :
                /\ h.created_by = "u1"
                /\ h.replaced_by = "u2"
                /\ h.group_name # q.group_name

\* The step is a successful tracked mutation of question q: an update or a
\* restore that returned the question, or a toggle to the other status.
TrackedMutationOf(q) ==
    /\ last'.id = q.id
    /\ last'.ret = "Question"
    /\ \/ last'.op = "update_question_with_history"
       \/ last'.op = "restore_question_version"
       \/ /\ last'.op = "toggle_active_status"
          /\ last'.arg # ToString(q.is_active)

\* C21: across any sequence of repository operations the version of a
\* stored question never decreases and changes by at most 1 per operation:
\* it increases by exactly 1 on a successful update, status-changing toggle
\* or restore of the question and is unchanged by every other operation
\* (no-op toggle, rejected restore, rename_group, delete_group without
\* deletion, operations on other questions).
C21_Step ==
    \A q \in questions, r \in questions' :
        r.id = q.id =>
            r.version = IF TrackedMutationOf(q) THEN q.version + 1
                        ELSE q.version

C21_VersionStepsByOne == [][C21_Step]_vars

\* A question that two tracked mutations have brought to version 3 has
\* been the target of a rejected restore and is still at version 3.
C21_Witness ==
    /\ last.op = "restore_question_version"
    /\ last.ret = "None"
    /\ \E q \in questions :
          /\ q.id = last.id
          /\ q.version = 3
          /\ Cardinality(HistoryOf(q.id)) = 2

\* C22: restore_question_version never changes is_active.  History rows do
\* not record the status, so restoring a row taken while the question was
\* active into a question that has been deactivated since (or the reverse)
\* restores question_text, group_name and source_shorthand only and leaves
\* is_active as it is.
C22_Step ==
    last'.op = "restore_question_version" =>
        /\ \A h \in history' : "is_active" \notin DOMAIN h
        /\ \A q \in questions, r \in questions' :
              r.id = q.id => r.is_active = q.is_active
        /\ last'.ret = "Question" =>
              \E q \in questions, r \in questions', h \in history :
                  /\ q.id = last'.id
                  /\ r.id = q.id
                  /\ h.id = last'.hid
                  /\ SameContent(r, h)
                  /\ r.is_active = q.is_active

C22_RestoreKeepsStatus == [][C22_Step]_vars

\* The row taken when an active question was deactivated has been restored
\* into it: the question is at version 3 and still inactive.
C22_Witness ==
    /\ last.op = "restore_question_version"
    /\ last.ret = "Question"
    /\ \E q \in questions, h \in history :
          /\ q.id = last.id
          /\ h.id = last.hid
          /\ h.question_id = q.id
          /\ h.version = 1
          /\ h.reason = "Deactivated question"
          /\ ~q.is_active
          /\ q.version = 3
====
